---- MODULE Spec2Model ----
(***************************************************************************)
(* LiveSpiff timer daemon (src/src/livespiffd.c) and run store             *)
(* (src/src/storage.c) as a state machine: the global Timer, the live Run, *)
(* the run files on disk, the monotonic clock, and one action per D-Bus    *)
(* method handled by on_method_call.                                       *)
(***************************************************************************)
EXTENDS Integers, Sequences, FiniteSets, TLC

VARIABLES
  g_timer,     \* the Timer struct (livespiffd.c:33)
  g_run,       \* the live LiveSpiffRun (livespiffd.c:44)
  heap_runs,   \* number of LiveSpiffRun objects allocated and not yet freed
  files,       \* path -> JSON document on disk
  now,         \* g_get_monotonic_time(), microseconds
  last,        \* the last method call and its reply
  obs,         \* observer's record of the attempt (history, not program state)
  bus,         \* the session bus: owner of BUS_NAME and the daemon instances
  loop         \* the main loop: calls received, handlers in progress, replies

vars == <<g_timer, g_run, heap_runs, files, now, last, obs, bus, loop>>

-----------------------------------------------------------------------------
(* Bounds of the model *)

\* one clock quantum, in microseconds (not a multiple of a millisecond)
TickUs == 600
\* the clock runs from TickUs to MaxTicks * TickUs
MaxTicks == 5
\* the same, where the run files are what is explored (StoreSpec)
MaxStoreTicks == 2
\* consecutive StartOrSplit calls the observer counts
MaxStreak == 4

MaxClock == MaxTicks * TickUs
StoreMaxClock == MaxStoreTicks * TickUs

\* ElapsedMs: timer_elapsed_us() / 1000
US_PER_MS == 1000

-----------------------------------------------------------------------------
(* Timer engine: livespiffd.c *)

STATE_IDLE == "Idle"
STATE_RUNNING == "Running"
STATE_PAUSED == "Paused"
STATE_FINISHED == "Finished"

TimerStates == {STATE_IDLE, STATE_RUNNING, STATE_PAUSED, STATE_FINISHED}

state_to_string(s) ==
  IF s \in TimerStates THEN s ELSE "Unknown"

g_timer_init ==
  [ state              |-> STATE_IDLE,
    start_monotonic_us |-> 0,
    paused_at_us       |-> 0,
    total_paused_us    |-> 0,
    paused_elapsed_us  |-> 0,
    current_split      |-> 0,
    split_count        |-> 3 ]

\* a mutant: the paused snapshot is ignored and the live difference returned
timer_elapsed_us_live(t, clock) ==
  IF t.state = STATE_IDLE THEN 0
  ELSE IF t.state = STATE_FINISHED
    THEN (IF t.paused_elapsed_us > 0 THEN t.paused_elapsed_us ELSE 0)
  ELSE LET raw == clock - t.start_monotonic_us
           adj == raw - t.total_paused_us
       IN  IF adj < 0 THEN 0 ELSE adj

timer_elapsed_us(t, clock) ==
  IF t.state = STATE_IDLE THEN 0
  ELSE IF t.state = STATE_PAUSED THEN t.paused_elapsed_us
  ELSE IF t.state = STATE_FINISHED
    THEN (IF t.paused_elapsed_us > 0 THEN t.paused_elapsed_us ELSE 0)
  ELSE LET raw == clock - t.start_monotonic_us
           adj == raw - t.total_paused_us
       IN  IF adj < 0 THEN 0 ELSE adj

\* a mutant: starting the attempt already counts as the first split
timer_start_counts_split(t, clock) ==
  IF t.state # STATE_IDLE THEN t
  ELSE [t EXCEPT !.start_monotonic_us = clock,
                 !.total_paused_us = 0,
                 !.paused_elapsed_us = 0,
                 !.paused_at_us = 0,
                 !.current_split = 1,
                 !.state = STATE_RUNNING]

\* a mutant: the start instant is not taken from the clock
timer_start_no_clock(t, clock) ==
  IF t.state # STATE_IDLE THEN t
  ELSE [t EXCEPT !.total_paused_us = 0,
                 !.paused_elapsed_us = 0,
                 !.paused_at_us = 0,
                 !.current_split = 0,
                 !.state = STATE_RUNNING]

timer_start(t, clock) ==
  IF t.state # STATE_IDLE THEN t
  ELSE [t EXCEPT !.start_monotonic_us = clock,
                 !.total_paused_us = 0,
                 !.paused_elapsed_us = 0,
                 !.paused_at_us = 0,
                 !.current_split = 0,
                 !.state = STATE_RUNNING]

\* a mutant: the last segment finishes the run one split early
timer_split_early(t, clock) ==
  IF t.state # STATE_RUNNING THEN t
  ELSE LET t1 == [t EXCEPT !.current_split = @ + 1]
       IN  IF t1.current_split + 1 >= t1.split_count
             THEN [t1 EXCEPT !.paused_elapsed_us = timer_elapsed_us(t1, clock),
                             !.state = STATE_FINISHED]
             ELSE t1

\* a mutant: the run finishes only once the index has passed the split count
timer_split_late(t, clock) ==
  IF t.state # STATE_RUNNING THEN t
  ELSE LET t1 == [t EXCEPT !.current_split = @ + 1]
       IN  IF t1.current_split > t1.split_count
             THEN [t1 EXCEPT !.paused_elapsed_us = timer_elapsed_us(t1, clock),
                             !.state = STATE_FINISHED]
             ELSE t1

\* a mutant: the run finishes without its final time being snapshotted
timer_split_no_snapshot(t, clock) ==
  IF t.state # STATE_RUNNING THEN t
  ELSE LET t1 == [t EXCEPT !.current_split = @ + 1]
       IN  IF t1.current_split >= t1.split_count
             THEN [t1 EXCEPT !.state = STATE_FINISHED]
             ELSE t1

timer_split(t, clock) ==
  IF t.state # STATE_RUNNING THEN t
  ELSE LET t1 == [t EXCEPT !.current_split = @ + 1]
       IN  IF t1.current_split >= t1.split_count
             THEN [t1 EXCEPT !.paused_elapsed_us = timer_elapsed_us(t1, clock),
                             !.state = STATE_FINISHED]
             ELSE t1

\* a mutant: StartOrSplit also advances the split index of a paused attempt
timer_start_or_split_while_paused(t, clock) ==
  IF t.state = STATE_IDLE THEN timer_start(t, clock)
  ELSE IF t.state = STATE_RUNNING THEN timer_split(t, clock)
  ELSE IF t.state = STATE_PAUSED THEN [t EXCEPT !.current_split = @ + 1]
  ELSE t

timer_start_or_split(t, clock) ==
  IF t.state = STATE_IDLE THEN timer_start(t, clock)
  ELSE IF t.state = STATE_RUNNING THEN timer_split(t, clock)
  ELSE t

\* a mutant: resuming overwrites the accumulated pause time instead of adding
timer_toggle_pause_overwrite(t, clock1, clock2) ==
  IF t.state = STATE_RUNNING
    THEN [t EXCEPT !.paused_elapsed_us = timer_elapsed_us(t, clock1),
                   !.paused_at_us = clock2,
                   !.state = STATE_PAUSED]
  ELSE IF t.state = STATE_PAUSED
    THEN [t EXCEPT !.total_paused_us = clock1 - t.paused_at_us,
                   !.paused_at_us = 0,
                   !.state = STATE_RUNNING]
  ELSE t

\* a mutant: a finished attempt is resumed like a paused one
timer_toggle_pause_resumes_finished(t, clock1, clock2) ==
  IF t.state = STATE_RUNNING
    THEN [t EXCEPT !.paused_elapsed_us = timer_elapsed_us(t, clock1),
                   !.paused_at_us = clock2,
                   !.state = STATE_PAUSED]
  ELSE IF t.state \in {STATE_PAUSED, STATE_FINISHED}
    THEN [t EXCEPT !.total_paused_us = @ + (clock1 - t.paused_at_us),
                   !.paused_at_us = 0,
                   !.state = STATE_RUNNING]
  ELSE t

\* a mutant: pausing does not record the pause instant
timer_toggle_pause_no_instant(t, clock1, clock2) ==
  IF t.state = STATE_RUNNING
    THEN [t EXCEPT !.paused_elapsed_us = timer_elapsed_us(t, clock1),
                   !.state = STATE_PAUSED]
  ELSE IF t.state = STATE_PAUSED
    THEN [t EXCEPT !.total_paused_us = @ + (clock1 - t.paused_at_us),
                   !.paused_at_us = 0,
                   !.state = STATE_RUNNING]
  ELSE t

\* clock1 is the first clock read of the handler, clock2 the second one
\* (the Running branch reads the clock in timer_elapsed_us and again for
\* paused_at_us; the Paused branch reads it once)
timer_toggle_pause(t, clock1, clock2) ==
  IF t.state = STATE_RUNNING
    THEN [t EXCEPT !.paused_elapsed_us = timer_elapsed_us(t, clock1),
                   !.paused_at_us = clock2,
                   !.state = STATE_PAUSED]
  ELSE IF t.state = STATE_PAUSED
    THEN [t EXCEPT !.total_paused_us = @ + (clock1 - t.paused_at_us),
                   !.paused_at_us = 0,
                   !.state = STATE_RUNNING]
  ELSE t

\* a mutant: Reset keeps the split index
timer_reset_keeps_split(t) ==
  [t EXCEPT !.state = STATE_IDLE,
            !.start_monotonic_us = 0,
            !.paused_at_us = 0,
            !.total_paused_us = 0,
            !.paused_elapsed_us = 0]

\* a mutant: Reset keeps the accumulated pause time
timer_reset_keeps_pauses(t) ==
  [t EXCEPT !.state = STATE_IDLE,
            !.start_monotonic_us = 0,
            !.paused_at_us = 0,
            !.paused_elapsed_us = 0,
            !.current_split = 0]

\* a mutant: Reset also discards the split count of the run
timer_reset_discards_splits(t) ==
  [t EXCEPT !.state = STATE_IDLE,
            !.start_monotonic_us = 0,
            !.paused_at_us = 0,
            !.total_paused_us = 0,
            !.paused_elapsed_us = 0,
            !.current_split = 0,
            !.split_count = 1]

timer_reset(t) ==
  [t EXCEPT !.state = STATE_IDLE,
            !.start_monotonic_us = 0,
            !.paused_at_us = 0,
            !.total_paused_us = 0,
            !.paused_elapsed_us = 0,
            !.current_split = 0]

\* a mutant: the split count is not refreshed from the run, only the clamp is kept
apply_run_to_timer_clamp_only(t, run) ==
  IF run.null THEN t
  ELSE IF t.current_split > t.split_count
    THEN [t EXCEPT !.current_split = 0]
    ELSE t

\* a mutant: the split count is refreshed but the index is never clamped
apply_run_to_timer_no_clamp(t, run) ==
  IF run.null THEN t
  ELSE LET n == Len(run.segments)
       IN  [t EXCEPT !.split_count = IF n < 1 THEN 1 ELSE n]

apply_run_to_timer(t, run) ==
  IF run.null THEN t
  ELSE LET n  == Len(run.segments)
           t1 == [t EXCEPT !.split_count = IF n < 1 THEN 1 ELSE n]
       IN  IF t1.current_split > t1.split_count
             THEN [t1 EXCEPT !.current_split = 0]
             ELSE t1

\* the value the ElapsedMs method replies with at clock reading `clock`
ElapsedMsReply(t, clock) == timer_elapsed_us(t, clock) \div US_PER_MS

-----------------------------------------------------------------------------
(* Run store: storage.c.  A C string is a TLA+ string; a NULL char* is     *)
(* NULL_STR.  A JSON value is [t, s, a]: its type, its text when it is a   *)
(* scalar, its elements when it is an array; an array element is [t, s].   *)

NULL_STR == "<NULL>"

NULL_RUN == [null |-> TRUE, game |-> NULL_STR, category |-> NULL_STR, segments |-> <<>>]

Run(g, c, segs) == [null |-> FALSE, game |-> g, category |-> c, segments |-> segs]

run_new_default == Run("Game", "Any%", <<"Split 1", "Split 2", "Split 3">>)

JAbsent == [t |-> "absent", s |-> "", a |-> <<>>]
JStr(x) == [t |-> "string", s |-> x, a |-> <<>>]
JNum(x) == [t |-> "number", s |-> x, a |-> <<>>]
JArr(elems) == [t |-> "array", s |-> "", a |-> elems]
JEStr(x) == [t |-> "string", s |-> x]
JENum(x) == [t |-> "number", s |-> x]

\* what a path holds: no file, text that is no JSON, a JSON document whose
\* root is no object, or a JSON object with the three members of a run
NoFile == [kind |-> "missing", game |-> JAbsent, category |-> JAbsent, segments |-> JAbsent]
NotJson == [kind |-> "garbage", game |-> JAbsent, category |-> JAbsent, segments |-> JAbsent]
RootArray == [kind |-> "array", game |-> JAbsent, category |-> JAbsent, segments |-> JAbsent]
JObject(g, c, segs) == [kind |-> "object", game |-> g, category |-> c, segments |-> segs]

SavePath == "runs/save.json"
EmptyPath == "runs/empty.json"
NoSegsPath == "runs/nosegs.json"
TwoPath == "runs/two.json"
GarbagePath == "runs/garbage.json"
ListPath == "runs/list.json"
TypesPath == "runs/types.json"
LockedPath == "runs/locked.json"
ProcPath == "/proc/livespiff/run.json"

\* the paths LoadRun and SaveRun are called with where the run files are
\* what is explored (StoreSpec)
LoadPaths == {SavePath, EmptyPath, NoSegsPath, TwoPath, GarbagePath, ListPath, TypesPath}
SavePaths == {SavePath, LockedPath, ProcPath}
\* and where the clock is what is explored (Spec)
TimerLoadPaths == {EmptyPath, TwoPath, GarbagePath}
TimerSavePaths == {LockedPath}
Paths == LoadPaths \cup SavePaths

InitialFiles ==
  [p \in Paths |->
     CASE p = EmptyPath   -> JObject(JStr("Celeste"), JAbsent, JArr(<<>>))
       [] p = NoSegsPath  -> JObject(JAbsent, JStr("100%"), JAbsent)
       [] p = TwoPath     -> JObject(JStr("Hades"), JStr("Fresh File"),
                                     JArr(<<JEStr("Tartarus"), JEStr("Asphodel")>>))
       [] p = GarbagePath -> NotJson
       [] p = ListPath    -> RootArray
       [] p = TypesPath   -> JObject(JNum("7"), JAbsent, JStr("none"))
       [] OTHER           -> NoFile]

g_path_get_dirname(path) ==
  IF path = ProcPath THEN "/proc/livespiff" ELSE "runs"

\* g_mkdir_with_parents fails under /proc
ensure_dir(dir) ==
  IF dir = "/proc/livespiff"
    THEN [ok |-> FALSE, err |-> "Failed to create directory: /proc/livespiff"]
    ELSE [ok |-> TRUE, err |-> NULL_STR]

NullToEmpty(str) == IF str = NULL_STR THEN "" ELSE str

run_to_json_node(run) ==
  JObject(JStr(NullToEmpty(run.game)),
          JStr(NullToEmpty(run.category)),
          JArr([i \in 1..Len(run.segments) |-> JEStr(NullToEmpty(run.segments[i]))]))

run_to_json_string(run) == run_to_json_node(run)

\* json_generator_to_file fails on LockedPath
run_save_json(path, run, fs) ==
  LET d == ensure_dir(g_path_get_dirname(path))
  IN  IF ~d.ok THEN [ok |-> FALSE, err |-> d.err, files |-> fs]
      ELSE IF path = LockedPath
        THEN [ok |-> FALSE, err |-> "GError: permission denied", files |-> fs]
        ELSE [ok |-> TRUE, err |-> NULL_STR,
              files |-> [fs EXCEPT ![path] = run_to_json_node(run)]]

\* json-glib: the member's string; the default when the member is absent,
\* null or no scalar; NULL when it is a scalar that is no string
json_object_get_string_member_with_default(v, default) ==
  IF v.t \in {"absent", "null", "array", "object"} THEN default
  ELSE IF v.t = "string" THEN v.s
  ELSE NULL_STR

\* json-glib: NULL (length 0) when the member is no array
json_object_get_array_member(v) ==
  IF v.t = "array" THEN v.a ELSE <<>>

\* json-glib: NULL when the element is no string
json_array_get_string_element(e) ==
  IF e.t = "string" THEN e.s ELSE NULL_STR

\* a mutant: an empty segment list is returned as it is
run_load_json_no_fallback(path, fs) ==
  LET doc == fs[path]
  IN  IF doc.kind \in {"missing", "garbage"}
        THEN [ok |-> FALSE, run |-> NULL_RUN, err |-> "GError: cannot load JSON"]
      ELSE IF doc.kind # "object"
        THEN [ok |-> FALSE, run |-> NULL_RUN, err |-> "Invalid JSON: root is not an object"]
      ELSE LET arr == IF doc.segments.t # "absent"
                        THEN json_object_get_array_member(doc.segments)
                        ELSE <<>>
               segs == [i \in 1..Len(arr) |->
                          NullToEmpty(json_array_get_string_element(arr[i]))]
           IN  [ok  |-> TRUE,
                run |-> Run(json_object_get_string_member_with_default(doc.game, "Game"),
                            json_object_get_string_member_with_default(doc.category, "Any%"),
                            segs),
                err |-> NULL_STR]

run_load_json(path, fs) ==
  LET doc == fs[path]
  IN  IF doc.kind \in {"missing", "garbage"}
        THEN [ok |-> FALSE, run |-> NULL_RUN, err |-> "GError: cannot load JSON"]
      ELSE IF doc.kind # "object"
        THEN [ok |-> FALSE, run |-> NULL_RUN, err |-> "Invalid JSON: root is not an object"]
      ELSE LET arr == IF doc.segments.t # "absent"
                        THEN json_object_get_array_member(doc.segments)
                        ELSE <<>>
               segs == [i \in 1..Len(arr) |->
                          NullToEmpty(json_array_get_string_element(arr[i]))]
           IN  [ok  |-> TRUE,
                run |-> Run(json_object_get_string_member_with_default(doc.game, "Game"),
                            json_object_get_string_member_with_default(doc.category, "Any%"),
                            IF Len(segs) = 0 THEN <<"Split 1">> ELSE segs),
                err |-> NULL_STR]

-----------------------------------------------------------------------------
(* RPC service: on_method_call, one operator per branch.  Each gives the   *)
(* daemon's state after the handler and the reply it sent.                 *)

ReturnValue(v) == [kind |-> "value", val |-> v]
DBusError(name, msg) == [kind |-> "error", val |-> <<name, msg>>]

\* a mutant: the loaded run replaces the live one but the old one is kept allocated
on_LoadRun_leak(t, run, heap, fs, path) ==
  LET r == run_load_json(path, fs)
  IN  IF r.ok
        THEN [timer |-> timer_reset(apply_run_to_timer(t, r.run)),
              run   |-> r.run,
              heap  |-> heap + 1,
              reply |-> ReturnValue(<<TRUE, "Run loaded">>)]
        ELSE [timer |-> t, run |-> run, heap |-> heap,
              reply |-> ReturnValue(<<FALSE, IF r.err # NULL_STR THEN r.err
                                             ELSE "Failed to load run">>)]

\* a mutant: the timer is reset before the load is known to have succeeded
on_LoadRun_eager_reset(t, run, heap, fs, path) ==
  LET r == run_load_json(path, fs)
  IN  IF r.ok
        THEN [timer |-> timer_reset(apply_run_to_timer(t, r.run)),
              run   |-> r.run,
              heap  |-> heap + 1 - (IF run.null THEN 0 ELSE 1),
              reply |-> ReturnValue(<<TRUE, "Run loaded">>)]
        ELSE [timer |-> timer_reset(t), run |-> run, heap |-> heap,
              reply |-> ReturnValue(<<FALSE, IF r.err # NULL_STR THEN r.err
                                             ELSE "Failed to load run">>)]

\* a mutant: the forced reset after apply_run_to_timer is missing
on_LoadRun_no_reset(t, run, heap, fs, path) ==
  LET r == run_load_json(path, fs)
  IN  IF r.ok
        THEN [timer |-> apply_run_to_timer(t, r.run),
              run   |-> r.run,
              heap  |-> heap + 1 - (IF run.null THEN 0 ELSE 1),
              reply |-> ReturnValue(<<TRUE, "Run loaded">>)]
        ELSE [timer |-> t, run |-> run, heap |-> heap,
              reply |-> ReturnValue(<<FALSE, IF r.err # NULL_STR THEN r.err
                                             ELSE "Failed to load run">>)]

\* run_load_json allocates the run it returns; run_free releases the old one
on_LoadRun(t, run, heap, fs, path) ==
  LET r == run_load_json(path, fs)
  IN  IF r.ok
        THEN [timer |-> timer_reset(apply_run_to_timer(t, r.run)),
              run   |-> r.run,
              heap  |-> heap + 1 - (IF run.null THEN 0 ELSE 1),
              reply |-> ReturnValue(<<TRUE, "Run loaded">>)]
        ELSE [timer |-> t, run |-> run, heap |-> heap,
              reply |-> ReturnValue(<<FALSE, IF r.err # NULL_STR THEN r.err
                                             ELSE "Failed to load run">>)]

\* a mutant: SaveRun writes and installs a default run whatever run is live
on_SaveRun_replaces_run(run, heap, fs, path) ==
  LET r == run_save_json(path, run_new_default, fs)
  IN  [run |-> run_new_default, heap |-> heap, files |-> r.files,
       reply |-> IF r.ok THEN ReturnValue(<<TRUE, "Run saved">>)
                 ELSE ReturnValue(<<FALSE, IF r.err # NULL_STR THEN r.err
                                           ELSE "Failed to save run">>)]

on_SaveRun(run, heap, fs, path) ==
  LET run1  == IF run.null THEN run_new_default ELSE run
      heap1 == IF run.null THEN heap + 1 ELSE heap
      r     == run_save_json(path, run1, fs)
  IN  [run |-> run1, heap |-> heap1, files |-> r.files,
       reply |-> IF r.ok THEN ReturnValue(<<TRUE, "Run saved">>)
                 ELSE ReturnValue(<<FALSE, IF r.err # NULL_STR THEN r.err
                                           ELSE "Failed to save run">>)]

\* a mutant: GetRunJson installs a default run whether or not one is live
on_GetRunJson_always_default(run, heap) ==
  [run |-> run_new_default, heap |-> heap,
   reply |-> ReturnValue(<<run_to_json_string(run_new_default)>>)]

on_GetRunJson(run, heap) ==
  LET run1  == IF run.null THEN run_new_default ELSE run
      heap1 == IF run.null THEN heap + 1 ELSE heap
  IN  [run |-> run1, heap |-> heap1,
       reply |-> ReturnValue(<<run_to_json_string(run1)>>)]

\* a mutant: an unknown method is answered like a timer control
on_UnknownMethod_silent == ReturnValue(<<>>)

on_UnknownMethod ==
  DBusError("com.livespiff.LiveSpiff.Error.UnknownMethod", "Unknown method")

-----------------------------------------------------------------------------
(* The observer: what a client that watches the calls and the clock knows  *)
(* of the current attempt, kept apart from the daemon's own accumulators.  *)
(*   streak    consecutive StartOrSplit calls since the timer was Idle     *)
(*             (queries in between allowed), Broken after any other call   *)
(*   start     the clock reading of the call that started the attempt      *)
(*   pauseAt   the clock reading at which the current pause began          *)
(*   pauseSum  the sum of the completed pause intervals of the attempt     *)
(*   cycles    the number of completed pauses of non-zero length            *)
(*   readMs    the last ElapsedMs reply of the attempt, NoRead if none     *)
(*   readSt    the state at that read while the state has not changed      *)
(*   prev      the state in which the previous attempt was discarded by    *)
(*             Reset or LoadRun; "none" at startup, when no attempt was    *)
(*             discarded, and after any call other than StartOrSplit and   *)
(*             the queries                                                 *)

\* below every count and every reply
Broken == 0 - 1
NoRead == 0 - 1

ObsInit ==
  [streak |-> 0, start |-> 0, pauseAt |-> 0, pauseSum |-> 0, cycles |-> 0,
   readMs |-> NoRead, readSt |-> "none", prev |-> "none"]

\* the state the discarded attempt was in; a reset of an idle timer discards none
Discarded(from) == IF from = STATE_IDLE THEN "none" ELSE from

\* after a call that is neither StartOrSplit nor a query
StreakCut(t1) == IF t1.state = STATE_IDLE THEN 0 ELSE Broken

\* the read is remembered with its state only while the state stays
ReadKept(o, t0, t1) ==
  IF t1.state = t0.state THEN o.readSt ELSE "moved"

\* the branches of on_method_call in the order they are tested
MethodBranches ==
  <<"StartOrSplit", "TogglePause", "Reset", "ElapsedMs", "State", "CurrentSplit",
    "SplitCount", "LoadRun", "SaveRun", "GetRunJson">>

\* a mutant: the Reset branch replies and falls through to the rest of the function
branch_returns_but_reset(name) == name # "Reset"

\* the branch for name ends with a return statement
branch_returns(name) == TRUE

RECURSIVE replies_from(_, _)
\* the number of g_dbus_method_invocation_return_* calls on_method_call makes
\* for method from its k-th branch on: one in a matching branch, which also
\* ends the function, and one at the end of the function
replies_from(method, k) ==
  IF k > Len(MethodBranches) THEN 1
  ELSE IF MethodBranches[k] = method
    THEN (IF branch_returns(method) THEN 1 ELSE 1 + replies_from(method, k + 1))
  ELSE replies_from(method, k + 1)

on_method_call_replies(method) == replies_from(method, 1)

Call(method, arg, reply) ==
  [method |-> method, arg |-> arg, from |-> g_timer.state, reply |-> reply,
   sent |-> on_method_call_replies(method)]

-----------------------------------------------------------------------------
(* Startup on the session bus: main, on_bus_acquired, on_name_acquired,    *)
(* on_name_lost.  An instance is off (not started), in main (g_bus_own_name *)
(* called, main loop running), connected (object registered, name request  *)
(* sent), granted or denied (the bus has decided, the callback has not run *)
(* yet), owner (on_name_acquired ran), unnamed (alive without the name) or  *)
(* exited with a status.                                                   *)

\* daemon instances started in the session
MaxInstances == 3
Instances == 1..MaxInstances

Proc(pc, status) == [pc |-> pc, status |-> status]

\* nobody started
BusEmpty ==
  [owner |-> {}, refused |-> {}, inst |-> [i \in Instances |-> Proc("off", 0)]]

\* instance 1 owns the name and serves; this is the daemon of Spec and StoreSpec
BusServing ==
  [owner |-> {1}, refused |-> {}, inst |-> [i \in Instances |-> IF i = 1 THEN Proc("owner", 0)
                                                ELSE Proc("off", 0)]]

\* g_dbus_connection_register_object returned reg_id
on_bus_acquired(registered) ==
  IF registered THEN Proc("connected", 0) ELSE Proc("exited", 1)

on_name_acquired == Proc("owner", 0)

\* a mutant: losing the name is logged and the instance keeps running
on_name_lost_keeps_running == Proc("unnamed", 0)

on_name_lost == Proc("exited", 1)

-----------------------------------------------------------------------------
(* The main loop: method calls are queued in arrival order and on_method_call *)
(* runs for one call at a time.  A handler in progress is [req, pc]; LoadRun  *)
(* is followed statement by statement.                                        *)

\* method calls received in one run of the loop
MaxArrivals == 3

Request(method, arg) == [method |-> method, arg |-> arg]

LoopIdle == [arrived |-> <<>>, dispatched |-> 0, active |-> <<>>, log |-> <<>>]

\* a mutant: a call is dispatched while another handler is still running
dispatch_ready_always(active) == TRUE

\* g_main_loop_run invokes the next callback when the previous one has returned
dispatch_ready(active) == active = <<>>

\* calls are taken in the order received
dispatch_pick(arrived, dispatched) == dispatched + 1

-----------------------------------------------------------------------------
(* Actions *)

Init ==
  /\ g_run = run_new_default
  /\ g_timer = apply_run_to_timer(g_timer_init, run_new_default)
  /\ heap_runs = 1
  /\ files = InitialFiles
  /\ now = TickUs
  /\ last = [method |-> "main", arg |-> "", from |-> STATE_IDLE, reply |-> ReturnValue(<<>>),
             sent |-> 0]
  /\ obs = ObsInit
  /\ bus = BusServing
  /\ loop = LoopIdle

\* the monotonic clock advances between calls
Tick(limit) ==
  /\ now + TickUs <= limit
  /\ now' = now + TickUs
  /\ UNCHANGED <<bus, loop, g_timer, g_run, heap_runs, files, last, obs>>

StartOrSplit ==
  LET t1 == timer_start_or_split(g_timer, now)
  IN  /\ g_timer' = t1
      /\ last' = Call("StartOrSplit", "", ReturnValue(<<>>))
      /\ obs' = [obs EXCEPT
                   !.streak = IF @ = Broken \/ @ >= MaxStreak THEN Broken ELSE @ + 1,
                   !.start = IF g_timer.state = STATE_IDLE THEN now ELSE @,
                   !.pauseSum = IF g_timer.state = STATE_IDLE THEN 0 ELSE @,
                   !.cycles = IF g_timer.state = STATE_IDLE THEN 0 ELSE @,
                   !.readSt = ReadKept(obs, g_timer, t1)]
      /\ UNCHANGED <<bus, loop, g_run, heap_runs, files, now>>

\* pausing reads the clock twice: it may advance by d between the reads
TogglePause(limit) ==
  \E d \in (IF g_timer.state = STATE_RUNNING THEN {0, TickUs} ELSE {0}) :
    LET t1 == timer_toggle_pause(g_timer, now, now + d)
    IN  /\ now + d <= limit
        /\ g_timer' = t1
        /\ now' = now + d
        /\ last' = Call("TogglePause", "", ReturnValue(<<>>))
        /\ obs' = [obs EXCEPT
                     !.streak = StreakCut(t1),
                     !.pauseAt = IF g_timer.state = STATE_RUNNING THEN now + d ELSE @,
                     !.pauseSum = IF g_timer.state = STATE_PAUSED
                                    THEN @ + (now - obs.pauseAt) ELSE @,
                     !.cycles = IF g_timer.state = STATE_PAUSED /\ now > obs.pauseAt
                                  THEN @ + 1 ELSE @,
                     !.readSt = ReadKept(obs, g_timer, t1),
                     !.prev = "none"]
        /\ UNCHANGED <<bus, loop, g_run, heap_runs, files>>

Reset ==
  LET t1 == timer_reset(g_timer)
  IN  /\ g_timer' = t1
      /\ last' = Call("Reset", "", ReturnValue(<<>>))
      /\ obs' = [ObsInit EXCEPT !.streak = StreakCut(t1),
                                !.prev = Discarded(g_timer.state)]
      /\ UNCHANGED <<bus, loop, g_run, heap_runs, files, now>>

ElapsedMs ==
  LET ms == ElapsedMsReply(g_timer, now)
  IN  /\ last' = Call("ElapsedMs", "", ReturnValue(<<ms>>))
      /\ obs' = [obs EXCEPT !.readMs = ms, !.readSt = g_timer.state]
      /\ UNCHANGED <<bus, loop, g_timer, g_run, heap_runs, files, now>>

State ==
  /\ last' = Call("State", "", ReturnValue(<<state_to_string(g_timer.state)>>))
  /\ UNCHANGED <<bus, loop, g_timer, g_run, heap_runs, files, now, obs>>

CurrentSplit ==
  /\ last' = Call("CurrentSplit", "", ReturnValue(<<g_timer.current_split>>))
  /\ UNCHANGED <<bus, loop, g_timer, g_run, heap_runs, files, now, obs>>

SplitCount ==
  /\ last' = Call("SplitCount", "", ReturnValue(<<g_timer.split_count>>))
  /\ UNCHANGED <<bus, loop, g_timer, g_run, heap_runs, files, now, obs>>

LoadRun(path) ==
  LET r == on_LoadRun(g_timer, g_run, heap_runs, files, path)
  IN  /\ g_timer' = r.timer
      /\ g_run' = r.run
      /\ heap_runs' = r.heap
      /\ last' = Call("LoadRun", path, r.reply)
      /\ obs' = IF r.reply.val[1]
                  THEN [ObsInit EXCEPT !.streak = StreakCut(r.timer),
                                       !.prev = Discarded(g_timer.state)]
                  ELSE [obs EXCEPT !.streak = StreakCut(r.timer),
                                   !.prev = "none",
                                   !.readSt = ReadKept(obs, g_timer, r.timer)]
      /\ UNCHANGED <<bus, loop, files, now>>

SaveRun(path) ==
  LET r == on_SaveRun(g_run, heap_runs, files, path)
  IN  /\ g_run' = r.run
      /\ heap_runs' = r.heap
      /\ files' = r.files
      /\ last' = Call("SaveRun", path, r.reply)
      /\ obs' = [obs EXCEPT !.streak = StreakCut(g_timer), !.prev = "none"]
      /\ UNCHANGED <<bus, loop, g_timer, now>>

GetRunJson ==
  LET r == on_GetRunJson(g_run, heap_runs)
  IN  /\ g_run' = r.run
      /\ heap_runs' = r.heap
      /\ last' = Call("GetRunJson", "", r.reply)
      /\ UNCHANGED <<bus, loop, g_timer, files, now, obs>>

\* the methods of the interface com.livespiff.LiveSpiff.Control
QueryMethods == {"ElapsedMs", "State", "CurrentSplit", "SplitCount", "GetRunJson"}
InterfaceMethods ==
  {"StartOrSplit", "TogglePause", "Reset", "LoadRun", "SaveRun"} \cup QueryMethods

\* a method name outside the interface
UnknownMethods == {"Pause"}

UnknownMethod(name) ==
  /\ last' = Call(name, "", on_UnknownMethod)
  /\ obs' = [obs EXCEPT !.streak = StreakCut(g_timer), !.prev = "none"]
  /\ UNCHANGED <<bus, loop, g_timer, g_run, heap_runs, files, now>>

\* a daemon process is started: main runs up to g_main_loop_run
Launch(i) ==
  /\ bus.inst[i].pc = "off"
  /\ bus' = [bus EXCEPT !.inst[i] = Proc("main", 0)]
  /\ UNCHANGED <<g_timer, g_run, heap_runs, files, now, last, obs, loop>>

\* the connection to the session bus is up: the object is registered
BusAcquired(i) ==
  /\ bus.inst[i].pc = "main"
  /\ \E registered \in BOOLEAN :
       bus' = [bus EXCEPT !.inst[i] = on_bus_acquired(registered)]
  /\ UNCHANGED <<g_timer, g_run, heap_runs, files, now, last, obs, loop>>

\* no connection to the session bus: GDBus calls the name-lost handler
ConnectFailed(i) ==
  /\ bus.inst[i].pc = "main"
  /\ bus' = [bus EXCEPT !.inst[i] = on_name_lost]
  /\ UNCHANGED <<g_timer, g_run, heap_runs, files, now, last, obs, loop>>

\* the bus answers the request for BUS_NAME: the first requester owns it
RequestName(i) ==
  /\ bus.inst[i].pc = "connected"
  /\ bus' = IF bus.owner = {}
              THEN [bus EXCEPT !.owner = {i}, !.inst[i] = Proc("granted", 0)]
              ELSE [bus EXCEPT !.refused = @ \cup {i}, !.inst[i] = Proc("denied", 0)]
  /\ UNCHANGED <<g_timer, g_run, heap_runs, files, now, last, obs, loop>>

NameAcquired(i) ==
  /\ bus.inst[i].pc = "granted"
  /\ bus' = [bus EXCEPT !.inst[i] = on_name_acquired]
  /\ UNCHANGED <<g_timer, g_run, heap_runs, files, now, last, obs, loop>>

NameLost(i) ==
  /\ bus.inst[i].pc = "denied"
  /\ bus' = [bus EXCEPT !.inst[i] = on_name_lost]
  /\ UNCHANGED <<g_timer, g_run, heap_runs, files, now, last, obs, loop>>

\* the owner's connection closes: the bus frees the name, the handler runs
Disconnected(i) ==
  /\ bus.inst[i].pc = "owner"
  /\ bus' = [bus EXCEPT !.owner = @ \ {i}, !.inst[i] = on_name_lost]
  /\ UNCHANGED <<g_timer, g_run, heap_runs, files, now, last, obs, loop>>

\* a method call reaches the daemon and waits for the main loop
Arrive(req) ==
  /\ Len(loop.arrived) < MaxArrivals
  /\ loop' = [loop EXCEPT !.arrived = Append(@, req)]
  /\ UNCHANGED <<g_timer, g_run, heap_runs, files, now, last, obs, bus>>

\* the main loop enters on_method_call for the next waiting call
Dispatch ==
  /\ dispatch_ready(loop.active)
  /\ loop.dispatched < Len(loop.arrived)
  /\ LET k == dispatch_pick(loop.arrived, loop.dispatched)
     IN  loop' = [loop EXCEPT
                    !.dispatched = @ + 1,
                    !.active = Append(@, [req |-> loop.arrived[k], pc |-> "entry"])]
  /\ UNCHANGED <<g_timer, g_run, heap_runs, files, now, last, obs, bus>>

Without(seq, h) == [j \in 1..(Len(seq) - 1) |-> IF j < h THEN seq[j] ELSE seq[j + 1]]

\* handler h returns with its reply
Returned(h, reply) ==
  [loop EXCEPT !.active = Without(@, h),
               !.log = Append(@, [req |-> loop.active[h].req, reply |-> reply])]

\* handler h is at pc
Moved(h, pc) == [loop EXCEPT !.active[h].pc = pc]

\* handler h of on_method_call runs its next statements
Step(h) ==
  LET req == loop.active[h].req
      pc  == loop.active[h].pc
  IN  /\ h \in 1..Len(loop.active)
      /\ CASE req.method = "StartOrSplit" ->
                /\ g_timer' = timer_start_or_split(g_timer, now)
                /\ loop' = Returned(h, ReturnValue(<<>>))
                /\ UNCHANGED <<g_run, heap_runs>>
           [] req.method = "State" ->
                /\ loop' = Returned(h, ReturnValue(<<state_to_string(g_timer.state)>>))
                /\ UNCHANGED <<g_timer, g_run, heap_runs>>
           [] req.method = "SplitCount" ->
                /\ loop' = Returned(h, ReturnValue(<<g_timer.split_count>>))
                /\ UNCHANGED <<g_timer, g_run, heap_runs>>
           [] req.method = "GetRunJson" ->
                LET r == on_GetRunJson(g_run, heap_runs)
                IN  /\ g_run' = r.run
                    /\ heap_runs' = r.heap
                    /\ loop' = Returned(h, r.reply)
                    /\ UNCHANGED g_timer
           [] req.method = "LoadRun" /\ pc = "entry" ->
                LET r == run_load_json(req.arg, files)
                IN  IF r.ok
                      THEN /\ g_run' = r.run
                           /\ heap_runs' = heap_runs + 1 - (IF g_run.null THEN 0 ELSE 1)
                           /\ loop' = Moved(h, "loaded")
                           /\ UNCHANGED g_timer
                      ELSE /\ loop' = Returned(h, ReturnValue(<<FALSE,
                                        IF r.err # NULL_STR THEN r.err
                                        ELSE "Failed to load run">>))
                           /\ UNCHANGED <<g_timer, g_run, heap_runs>>
           [] req.method = "LoadRun" /\ pc = "loaded" ->
                /\ g_timer' = apply_run_to_timer(g_timer, g_run)
                /\ loop' = Moved(h, "applied")
                /\ UNCHANGED <<g_run, heap_runs>>
           [] req.method = "LoadRun" /\ pc = "applied" ->
                /\ g_timer' = timer_reset(g_timer)
                /\ loop' = Returned(h, ReturnValue(<<TRUE, "Run loaded">>))
                /\ UNCHANGED <<g_run, heap_runs>>
      /\ UNCHANGED <<files, now, last, obs, bus>>

\* the timer under a long clock, with run files of 1, 2 and 3 segments
Next ==
  \/ Tick(MaxClock)
  \/ StartOrSplit
  \/ TogglePause(MaxClock)
  \/ Reset
  \/ ElapsedMs
  \/ State
  \/ CurrentSplit
  \/ SplitCount
  \/ \E path \in TimerLoadPaths : LoadRun(path)
  \/ \E path \in TimerSavePaths : SaveRun(path)
  \/ GetRunJson
  \/ \E name \in UnknownMethods : UnknownMethod(name)

Spec == Init /\ [][Next]_vars

\* every run file and every save path, under a short clock
StoreNext ==
  \/ Tick(StoreMaxClock)
  \/ StartOrSplit
  \/ TogglePause(StoreMaxClock)
  \/ Reset
  \/ ElapsedMs
  \/ State
  \/ CurrentSplit
  \/ SplitCount
  \/ \E path \in LoadPaths : LoadRun(path)
  \/ \E path \in SavePaths : SaveRun(path)
  \/ GetRunJson
  \/ \E name \in UnknownMethods : UnknownMethod(name)

StoreSpec == Init /\ [][StoreNext]_vars

\* daemon instances starting in one session, from an empty bus
BusInit ==
  /\ g_run = run_new_default
  /\ g_timer = apply_run_to_timer(g_timer_init, run_new_default)
  /\ heap_runs = 1
  /\ files = InitialFiles
  /\ now = TickUs
  /\ last = [method |-> "main", arg |-> "", from |-> STATE_IDLE, reply |-> ReturnValue(<<>>),
             sent |-> 0]
  /\ obs = ObsInit
  /\ bus = BusEmpty
  /\ loop = LoopIdle

BusNext ==
  \E i \in Instances :
    \/ Launch(i)
    \/ BusAcquired(i)
    \/ ConnectFailed(i)
    \/ RequestName(i)
    \/ NameAcquired(i)
    \/ NameLost(i)
    \/ Disconnected(i)

\* the main loop keeps running callbacks until the process exits
BusSpec ==
  BusInit /\ [][BusNext]_vars /\ \A i \in Instances : WF_vars(NameLost(i))

\* the calls clients send while the loop runs
DispatchRequests ==
  {Request("StartOrSplit", ""), Request("State", ""), Request("SplitCount", ""),
   Request("GetRunJson", ""), Request("LoadRun", TwoPath), Request("LoadRun", GarbagePath)}

DispatchNext ==
  \/ \E req \in DispatchRequests : Arrive(req)
  \/ Dispatch
  \/ \E h \in 1..MaxArrivals : Step(h)

DispatchSpec == Init /\ [][DispatchNext]_vars

\* the largest split index, split count and segment count tried in a reload
MaxSplits == 3

\* a run of n segments
RunOfLength(n) == Run("Game", "Any%", [i \in 1..n |-> "Segment"])

\* a LoadRun handler stands between replacing the run and apply_run_to_timer,
\* for every timer state, split index, split count and new segment count; a
\* client read the split index just before
ApplyInit ==
  /\ \E st \in TimerStates, cs \in 0..MaxSplits, sc \in 1..MaxSplits :
       /\ g_timer = [g_timer_init EXCEPT !.state = st, !.current_split = cs,
                                         !.split_count = sc]
       /\ last = [method |-> "CurrentSplit", arg |-> "", from |-> st,
                  reply |-> ReturnValue(<<cs>>), sent |-> 1]
  /\ \E n \in 0..MaxSplits : g_run = RunOfLength(n)
  /\ heap_runs = 1
  /\ files = InitialFiles
  /\ now = TickUs
  /\ obs = ObsInit
  /\ bus = BusServing
  /\ loop = [LoopIdle EXCEPT
               !.arrived = <<Request("LoadRun", TwoPath)>>,
               !.dispatched = 1,
               !.active = <<[req |-> Request("LoadRun", TwoPath), pc |-> "loaded"]>>]

\* the rest of the handler: apply_run_to_timer, then timer_reset and the reply
ApplyNext == Step(1)

ApplySpec == ApplyInit /\ [][ApplyNext]_vars

-----------------------------------------------------------------------------
(* Claims C1 - C10 *)

Ok(reply) == reply.kind = "value" /\ reply.val[1]

\* C1: Reset from any reachable state (Idle, Running, Paused or Finished,
\* whatever the split index and the accumulated pause) leaves State() = Idle,
\* ElapsedMs() = 0 and CurrentSplit() = 0, at every later clock reading.
C1_ResetYieldsIdle ==
  last.method = "Reset" =>
    /\ state_to_string(g_timer.state) = "Idle"
    /\ ElapsedMsReply(g_timer, now) = 0
    /\ g_timer.current_split = 0

\* Reset was called on a finished attempt (split index = split count > 0)
C1_Witness ==
  /\ last.method = "Reset"
  /\ last.from = STATE_FINISHED
  /\ g_timer.state = STATE_IDLE

\* C2 as the spec states it: StartOrSplit called segment_count times from
\* Idle passes through Running segment_count - 1 times and is Finished on the
\* final, segment_count-th call.
C2_Original ==
  /\ (obs.streak >= 1 /\ obs.streak < g_timer.split_count
        => g_timer.state = STATE_RUNNING)
  /\ (obs.streak = g_timer.split_count => g_timer.state = STATE_FINISHED)

\* C2 amended: the first call starts the attempt and each later call completes
\* one segment, so the state is Running after each of the first segment_count
\* calls and Finished on call segment_count + 1, for every segment_count >= 1.
C2_Amended ==
  /\ g_timer.split_count >= 1
  /\ (obs.streak >= 1 /\ obs.streak <= g_timer.split_count
        => g_timer.state = STATE_RUNNING)
  /\ (obs.streak = g_timer.split_count + 1 => g_timer.state = STATE_FINISHED)

\* segment_count + 1 consecutive StartOrSplit calls from Idle have been made
C2_Witness ==
  /\ obs.streak = g_timer.split_count + 1
  /\ g_timer.state = STATE_FINISHED
  /\ last.method = "StartOrSplit"

\* C3: with the default run (3 segments) and the timer Idle, four consecutive
\* StartOrSplit calls give Running with CurrentSplit() = 0, then 1, then 2,
\* then Finished; the state is not Finished before the fourth call.
C3_DefaultRunScenario ==
  g_run = run_new_default =>
    /\ (obs.streak = 1 => g_timer.state = STATE_RUNNING /\ g_timer.current_split = 0)
    /\ (obs.streak = 2 => g_timer.state # STATE_FINISHED /\ g_timer.current_split = 1)
    /\ (obs.streak = 3 => g_timer.state # STATE_FINISHED /\ g_timer.current_split = 2)
    /\ (obs.streak = 4 => g_timer.state = STATE_FINISHED)

\* the fourth consecutive StartOrSplit on the default run has been made
C3_Witness ==
  /\ g_run = run_new_default
  /\ obs.streak = 4
  /\ last.method = "StartOrSplit"
  /\ g_timer.state = STATE_FINISHED

\* C4: in every state reachable by StartOrSplit, TogglePause, Reset, LoadRun
\* (successful or failed, runs of any segment count) and SaveRun,
\* 0 <= current_split <= split_count, and a CurrentSplit() reply never
\* exceeds SplitCount().
C4_SplitIndexInRange ==
  /\ 0 <= g_timer.current_split
  /\ g_timer.current_split <= g_timer.split_count
  /\ (last.method = "CurrentSplit" => last.reply.val[1] <= g_timer.split_count)

\* the upper end of the range is reached, on a loaded run
C4_Witness ==
  /\ g_timer.current_split = g_timer.split_count
  /\ g_run # run_new_default
  /\ last.method = "CurrentSplit"

\* C5: a later ElapsedMs() read of the same attempt (no Reset, no successful
\* LoadRun in between) never returns less than the last one, also across a
\* pause/resume pair, and returns the same while the state has stayed Paused
\* or stayed Finished since that read, however far the clock has advanced.
C5_ElapsedMonotone ==
  obs.readMs # NoRead =>
    /\ ElapsedMsReply(g_timer, now) >= obs.readMs
    /\ (g_timer.state \in {STATE_PAUSED, STATE_FINISHED} /\ obs.readSt = g_timer.state
          => ElapsedMsReply(g_timer, now) = obs.readMs)

\* a non-zero read was taken while Paused and the clock has moved on since
\* the pause began
C5_Witness ==
  /\ obs.readMs >= 1
  /\ obs.readSt = STATE_PAUSED
  /\ g_timer.state = STATE_PAUSED
  /\ now > g_timer.paused_at_us

\* C6: after a start and any number of pause/resume pairs, the elapsed time
\* read while Running is (now - start instant) minus the sum of the completed
\* pause intervals, to within one millisecond, whatever the number of pairs.
C6_ElapsedIsWallMinusPauses ==
  g_timer.state = STATE_RUNNING =>
    LET exact == (now - obs.start) - obs.pauseSum
        read  == ElapsedMsReply(g_timer, now) * US_PER_MS
    IN  read <= exact /\ exact < read + US_PER_MS

\* Running again after at least two completed pauses of non-zero length
C6_Witness ==
  /\ g_timer.state = STATE_RUNNING
  /\ obs.cycles >= 2
  /\ obs.pauseSum >= 2 * TickUs
  /\ ElapsedMsReply(g_timer, now) >= 1

\* C7: a LoadRun that fails (no file at the path, content that is no JSON, a
\* root that is no object) replies (false, message) and leaves the live Run,
\* every Timer field and the files as they were, in whatever state the timer is.
C7_FailedLoadChangesNothing ==
  [][(/\ last'.method = "LoadRun"
       /\ LoadRun(last'.arg)
       /\ (files[last'.arg].kind # "object" \/ ~Ok(last'.reply)))
        => /\ last'.reply.kind = "value"
           /\ last'.reply.val[1] = FALSE
           /\ Len(last'.reply.val) = 2
           /\ UNCHANGED <<g_timer, g_run, heap_runs, files>>]_vars

\* a LoadRun has failed in the middle of a paused attempt on a loaded run
C7_Witness ==
  /\ last.method = "LoadRun"
  /\ ~Ok(last.reply)
  /\ g_timer.state = STATE_PAUSED
  /\ g_timer.current_split >= 1
  /\ g_run # run_new_default

\* C8: a successful LoadRun in any timer state ends with State() = Idle,
\* CurrentSplit() = 0, ElapsedMs() = 0 and SplitCount() equal to the number of
\* segments of the run loaded from the file.
C8_LoadRunResets ==
  last.method = "LoadRun" /\ Ok(last.reply) =>
    /\ g_timer.state = STATE_IDLE
    /\ g_timer.current_split = 0
    /\ ElapsedMsReply(g_timer, now) = 0
    /\ g_timer.split_count = Len(g_run.segments)
    /\ g_run = run_load_json(last.arg, files).run

\* a two-segment run was loaded over a finished attempt
C8_Witness ==
  /\ last.method = "LoadRun"
  /\ Ok(last.reply)
  /\ last.from = STATE_FINISHED
  /\ g_timer.split_count = 2

EmptySegments(doc) ==
  /\ doc.kind = "object"
  /\ \/ doc.segments.t = "absent"
     \/ doc.segments.t = "array" /\ Len(doc.segments.a) = 0

\* C9: loading a run file whose segments array is empty or absent succeeds and
\* gives a live Run with the one segment "Split 1", SplitCount() = 1,
\* CurrentSplit() = 0 and State() = Idle.
C9_EmptySegmentsLoad ==
  last.method = "LoadRun" /\ EmptySegments(files[last.arg]) =>
    /\ last.reply = ReturnValue(<<TRUE, "Run loaded">>)
    /\ g_run.segments = <<"Split 1">>
    /\ g_timer.split_count = 1
    /\ g_timer.current_split = 0
    /\ g_timer.state = STATE_IDLE

\* the file with an empty segments array was loaded during a running attempt
C9_Witness ==
  /\ last.method = "LoadRun"
  /\ last.arg = EmptyPath
  /\ files[EmptyPath].segments = JArr(<<>>)
  /\ last.from = STATE_RUNNING

\* C10: in every reachable state exactly one Run is live (one allocated,
\* g_run pointing to it) and its segment list has at least one element.
C10_OneLiveRun ==
  /\ ~g_run.null
  /\ heap_runs = 1
  /\ Len(g_run.segments) >= 1

\* the run has been replaced by a load and then read back
C10_Witness ==
  /\ g_run # run_new_default
  /\ last.method = "GetRunJson"
  /\ files[SavePath] # NoFile

-----------------------------------------------------------------------------
(* Claims C11 - C20 *)

\* C11: in every state between calls the timer's split_count is the number of
\* segments of the live Run; it is set at startup from the default run and
\* changed by a successful LoadRun and by no other operation.
C11_SplitCountMirrorsRun ==
  /\ g_timer.split_count = Len(g_run.segments)
  /\ [][/\ g_timer'.split_count = Len(g_run'.segments)
        /\ (g_timer'.split_count # g_timer.split_count
              => last'.method = "LoadRun" /\ Ok(last'.reply))]_vars

\* a two-segment run was loaded and is being run
C11_Witness ==
  /\ g_timer.split_count = 2
  /\ Len(g_run.segments) = 2
  /\ g_timer.state = STATE_RUNNING
  /\ last.method = "SplitCount"

\* C12: for every live Run, a successful SaveRun(path) followed by a
\* successful LoadRun(path) yields a live Run with the game, the category and
\* the ordered segment list of the Run that was saved.
C12_SaveLoadRoundTrip ==
  [][(/\ last.method = "SaveRun"
      /\ Ok(last.reply)
      /\ last'.method = "LoadRun"
      /\ last'.arg = last.arg
      /\ Ok(last'.reply))
       => /\ g_run'.game = g_run.game
          /\ g_run'.category = g_run.category
          /\ g_run'.segments = g_run.segments]_vars

\* C13: StartOrSplit while Paused or Finished is a no-op: the state, the split
\* index, the split count and every accumulator stay as they are, and the call
\* returns successfully.
C13_StartOrSplitNoOp ==
  [][(last'.method = "StartOrSplit" /\ g_timer.state \in {STATE_PAUSED, STATE_FINISHED})
       => /\ g_timer' = g_timer
          /\ last'.reply = [kind |-> "value", val |-> <<>>]]_vars

\* StartOrSplit was called on a paused attempt past its first split
C13_Witness ==
  /\ last.method = "StartOrSplit"
  /\ last.from = STATE_PAUSED
  /\ g_timer.current_split >= 1

\* C14: TogglePause while Idle or Finished is a no-op: the state, the split
\* index, the split count and every accumulator stay as they are, and the call
\* returns successfully rather than as an error.
C14_TogglePauseNoOp ==
  [][(last'.method = "TogglePause" /\ g_timer.state \in {STATE_IDLE, STATE_FINISHED})
       => /\ g_timer' = g_timer
          /\ last'.reply = [kind |-> "value", val |-> <<>>]]_vars

\* TogglePause was called on a finished attempt that had been paused before
C14_Witness ==
  /\ last.method = "TogglePause"
  /\ last.from = STATE_FINISHED
  /\ g_timer.total_paused_us > 0

\* C15: every step into Finished is a StartOrSplit taken while Running whose
\* incremented split index reaches split_count; no other call enters Finished
\* and Finished is never entered from Idle or Paused.
C15_SolePathIntoFinished ==
  [][(g_timer.state # STATE_FINISHED /\ g_timer'.state = STATE_FINISHED)
       => /\ g_timer.state = STATE_RUNNING
          /\ last'.method = "StartOrSplit"
          /\ g_timer'.current_split = g_timer.current_split + 1
          /\ g_timer'.current_split = g_timer.split_count
          /\ g_timer'.split_count = g_timer.split_count]_vars

\* an attempt that had been paused has been finished by a StartOrSplit
C15_Witness ==
  /\ g_timer.state = STATE_FINISHED
  /\ last.method = "StartOrSplit"
  /\ last.from = STATE_RUNNING
  /\ obs.cycles >= 1

\* C16: ElapsedMs, State, CurrentSplit, SplitCount and GetRunJson change no
\* Timer field, not the live Run and no file, in every state.
C16_QueriesChangeNothing ==
  [][(last'.method \in QueryMethods /\ now' = now)
       => UNCHANGED <<g_timer, g_run, heap_runs, files>>]_vars

\* GetRunJson was answered in the middle of a paused attempt on a loaded run
C16_Witness ==
  /\ last.method = "GetRunJson"
  /\ last.reply = [kind |-> "value", val |-> <<run_to_json_node(g_run)>>]
  /\ g_timer.state = STATE_PAUSED
  /\ g_run # run_new_default

\* C17: a call of a method outside the ten of the interface is answered with
\* the UnknownMethod D-Bus error (no return value) and leaves the Timer, the
\* Run and the files as they were.
C17_UnknownMethodFault ==
  [][(last'.method \notin (InterfaceMethods \cup {"main"}) /\ now' = now)
       => /\ last'.reply.kind = "error"
          /\ last'.reply.val =
               <<"com.livespiff.LiveSpiff.Error.UnknownMethod", "Unknown method">>
          /\ UNCHANGED <<g_timer, g_run, heap_runs, files>>]_vars

\* an unknown method was called during a running attempt
C17_Witness ==
  /\ last.method \notin (InterfaceMethods \cup {"main"})
  /\ last.reply.kind = "error"
  /\ g_timer.state = STATE_RUNNING

\* a JSON object with a member of the wrong type: game or category no string,
\* segments no array of strings
WrongType(doc) ==
  /\ doc.kind = "object"
  /\ \/ doc.game.t \notin {"absent", "string"}
     \/ doc.category.t \notin {"absent", "string"}
     \/ doc.segments.t \notin {"absent", "array"}
     \/ \E i \in 1..Len(doc.segments.a) : doc.segments.a[i].t # "string"

\* C18: LoadRun replies (false, message) and does not replace the live Run
\* whenever the file content is no JSON object or a member has the wrong type.
C18_MalformedLoadFails ==
  [][(/\ last'.method = "LoadRun"
      /\ now' = now
      /\ (files[last'.arg].kind \in {"garbage", "array"} \/ WrongType(files[last'.arg])))
       => /\ last'.reply.val[1] = FALSE
          /\ g_run' = g_run]_vars

\* an instance that lives without owning the name, after its name callback
Duplicate(i) ==
  /\ i \notin bus.owner
  /\ bus.inst[i].pc \notin {"off", "main", "connected", "denied", "exited"}

\* C19: of the instances requesting the well-known name at most one holds it,
\* an instance the bus refused never keeps running as a duplicate, every exit
\* is with a non-zero status, and a refused instance does terminate.
C19_LoserExitsNonZero ==
  /\ [](/\ Cardinality(bus.owner) <= 1
        /\ Cardinality({i \in Instances : bus.inst[i].pc \in {"granted", "owner"}}) <= 1
        /\ \A i \in Instances :
             /\ ~Duplicate(i)
             /\ bus.inst[i].pc = "exited" => bus.inst[i].status # 0)
  /\ \A i \in Instances :
       (bus.inst[i].pc = "denied")
         ~> (bus.inst[i].pc = "exited" /\ bus.inst[i].status # 0)

\* one instance serves under the name, another was refused it and has exited
C19_Witness ==
  \E i, j \in Instances :
    /\ bus.owner = {i}
    /\ bus.inst[i].pc = "owner"
    /\ j \in bus.refused
    /\ bus.inst[j] = Proc("exited", 1)

\* the daemon after on_method_call has handled req from state st atomically
Handled(st, req) ==
  LET done(t, run, heap, reply) ==
        [timer |-> t, run |-> run, heap |-> heap,
         log |-> Append(st.log, [req |-> req, reply |-> reply])]
  IN  CASE req.method = "StartOrSplit" ->
             done(timer_start_or_split(st.timer, now), st.run, st.heap, ReturnValue(<<>>))
        [] req.method = "State" ->
             done(st.timer, st.run, st.heap,
                  ReturnValue(<<state_to_string(st.timer.state)>>))
        [] req.method = "SplitCount" ->
             done(st.timer, st.run, st.heap, ReturnValue(<<st.timer.split_count>>))
        [] req.method = "GetRunJson" ->
             LET r == on_GetRunJson(st.run, st.heap)
             IN  done(st.timer, r.run, r.heap, r.reply)
        [] req.method = "LoadRun" ->
             LET r == on_LoadRun(st.timer, st.run, st.heap, files, req.arg)
             IN  done(r.timer, r.run, r.heap, r.reply)

RECURSIVE Sequentially(_)
\* the received calls reqs applied one after another to the daemon as started
Sequentially(reqs) ==
  IF reqs = <<>>
    THEN [timer |-> apply_run_to_timer(g_timer_init, run_new_default),
          run |-> run_new_default, heap |-> 1, log |-> <<>>]
    ELSE Handled(Sequentially(SubSeq(reqs, 1, Len(reqs) - 1)), reqs[Len(reqs)])

\* C20: calls are handled one at a time in arrival order: at most one handler
\* is in progress, the replies sent are those of the received calls applied
\* sequentially, and whenever no handler is in progress the Timer and the Run
\* are the result of applying the calls dispatched so far sequentially.
C20_SerialDispatch ==
  LET ref == Sequentially(SubSeq(loop.arrived, 1, loop.dispatched))
  IN  /\ Len(loop.active) <= 1
      /\ Len(loop.log) <= Len(ref.log)
      /\ \A k \in 1..Len(loop.log) : loop.log[k] = ref.log[k]
      /\ loop.active = <<>> =>
           /\ g_timer = ref.timer
           /\ g_run = ref.run
           /\ heap_runs = ref.heap
           /\ loop.log = ref.log

\* a State call waited while LoadRun replaced the run of a running attempt,
\* and was answered after the reset
C20_Witness ==
  /\ loop.active = <<>>
  /\ loop.arrived = <<Request("StartOrSplit", ""), Request("LoadRun", TwoPath),
                      Request("State", "")>>
  /\ Len(loop.log) = Len(loop.arrived)
  /\ loop.log[Len(loop.log)].reply = ReturnValue(<<"Idle">>)
  /\ g_timer.split_count = 2

-----------------------------------------------------------------------------
(* Claims C21 - C30 *)

\* C21: SaveRun, whether the write succeeds or fails, leaves the Timer and the
\* live Run as they were; a failed write is answered (false, message), leaves
\* the files as they were, and the daemon stays on the bus.
C21_SaveRunKeepsTimerAndRun ==
  [][(last'.method = "SaveRun" /\ now' = now)
       => /\ g_timer' = g_timer
          /\ g_run' = g_run
          /\ bus' = bus
          /\ last'.reply.kind = "value"
          /\ Len(last'.reply.val) = 2
          /\ (last'.arg \in {LockedPath, ProcPath} => ~Ok(last'.reply))
          /\ (~Ok(last'.reply) => files' = files)]_vars

\* a write has failed during a running attempt on a loaded run
C21_Witness ==
  /\ last.method = "SaveRun"
  /\ ~Ok(last.reply)
  /\ last.from = STATE_RUNNING
  /\ g_timer.state = STATE_RUNNING
  /\ g_run # run_new_default

\* the larger of 0 and x
Floor0(x) == IF x < 0 THEN 0 ELSE x

\* C22: at this and at any later clock reading ElapsedMs is >= 0: 0 in Idle,
\* the frozen snapshot in Paused and Finished, and (now - start instant) minus
\* the accumulated pause duration, floored at 0, in Running; every ElapsedMs
\* reply sent is >= 0.
C22_ElapsedNeverNegative ==
  /\ \A c \in {now, now + TickUs, now + MaxClock} :
       LET ms == ElapsedMsReply(g_timer, c)
       IN  /\ ms >= 0
           /\ g_timer.state = STATE_IDLE => ms = 0
           /\ g_timer.state \in {STATE_PAUSED, STATE_FINISHED}
                => ms = g_timer.paused_elapsed_us \div US_PER_MS
           /\ g_timer.state = STATE_RUNNING
                => ms = Floor0((c - g_timer.start_monotonic_us) - g_timer.total_paused_us)
                          \div US_PER_MS
  /\ last.method = "ElapsedMs" => last.reply.val[1] >= 0

\* a non-zero reply in a paused attempt that had been paused and resumed before
C22_Witness ==
  /\ last.method = "ElapsedMs"
  /\ last.reply.val[1] >= 1
  /\ g_timer.state = STATE_PAUSED
  /\ g_timer.total_paused_us > 0
  /\ now > g_timer.paused_at_us

\* C23: StartOrSplit in Running adds exactly one to current_split; the state
\* becomes Finished, with the elapsed time of that instant as the frozen value,
\* exactly when the new index equals split_count; otherwise the state stays
\* Running and no time accumulator changes.
C23_SplitAdvancesByOne ==
  [][(last'.method = "StartOrSplit" /\ now' = now /\ g_timer.state = STATE_RUNNING)
       => /\ g_timer'.current_split = g_timer.current_split + 1
          /\ g_timer'.split_count = g_timer.split_count
          /\ g_timer'.state \in {STATE_RUNNING, STATE_FINISHED}
          /\ (g_timer'.state = STATE_FINISHED
                <=> g_timer'.current_split = g_timer.split_count)
          /\ (g_timer'.state = STATE_FINISHED
                => g_timer'.paused_elapsed_us =
                     Floor0((now - g_timer.start_monotonic_us) - g_timer.total_paused_us))
          /\ (g_timer'.state = STATE_RUNNING
                => /\ g_timer'.start_monotonic_us = g_timer.start_monotonic_us
                   /\ g_timer'.total_paused_us = g_timer.total_paused_us
                   /\ g_timer'.paused_elapsed_us = g_timer.paused_elapsed_us
                   /\ g_timer'.paused_at_us = g_timer.paused_at_us)]_vars

\* the last split of a two-segment run finished an attempt that had been paused
C23_Witness ==
  /\ last.method = "StartOrSplit"
  /\ last.from = STATE_RUNNING
  /\ g_timer.state = STATE_FINISHED
  /\ g_timer.split_count = 2
  /\ g_timer.total_paused_us > 0
  /\ g_timer.paused_elapsed_us > 0

\* C24: StartOrSplit in Idle gives Running with current_split, accumulated
\* pause duration and frozen elapsed all 0 and the start instant equal to the
\* clock reading, so that ElapsedMs at that reading is 0.
C24_StartFromIdle ==
  [][(last'.method = "StartOrSplit" /\ now' = now /\ g_timer.state = STATE_IDLE)
       => /\ g_timer'.state = STATE_RUNNING
          /\ g_timer'.current_split = 0
          /\ g_timer'.total_paused_us = 0
          /\ g_timer'.paused_elapsed_us = 0
          /\ g_timer'.start_monotonic_us = now
          /\ g_timer'.split_count = g_timer.split_count
          /\ ElapsedMsReply(g_timer', now') = 0]_vars

\* an attempt was started later than the first clock reading
C24_Witness ==
  /\ last.method = "StartOrSplit"
  /\ last.from = STATE_IDLE
  /\ g_timer.state = STATE_RUNNING
  /\ g_timer.start_monotonic_us = now
  /\ now >= 2 * TickUs

\* C25: TogglePause in Running gives Paused; TogglePause in Paused gives
\* Running and adds exactly (resume instant - recorded pause instant) to the
\* accumulated pause duration; neither changes current_split, split_count or
\* the start instant.
C25_PauseResumeKeepsSplits ==
  [][(/\ last'.method = "TogglePause"
      /\ g_timer.state \in {STATE_RUNNING, STATE_PAUSED}
      /\ TogglePause(MaxClock))
       => /\ g_timer.state = STATE_RUNNING => g_timer'.state = STATE_PAUSED
          /\ g_timer.state = STATE_PAUSED
               => /\ g_timer'.state = STATE_RUNNING
                  /\ g_timer'.total_paused_us =
                       g_timer.total_paused_us + (now' - g_timer.paused_at_us)
          /\ g_timer'.current_split = g_timer.current_split
          /\ g_timer'.split_count = g_timer.split_count
          /\ g_timer'.start_monotonic_us = g_timer.start_monotonic_us]_vars

\* a second pause of non-zero length was ended after a split
C25_Witness ==
  /\ last.method = "TogglePause"
  /\ last.from = STATE_PAUSED
  /\ g_timer.state = STATE_RUNNING
  /\ g_timer.current_split >= 1
  /\ obs.cycles >= 2
  /\ g_timer.total_paused_us >= 2 * TickUs

\* C26: every call on_method_call handled was answered exactly once, by a
\* return value or by a fault, whatever the method name and the timer state.
C26_ExactlyOneReply ==
  last.method # "main" =>
    /\ last.sent = 1
    /\ last.reply.kind \in {"value", "error"}

\* a Reset of a finished attempt was answered once
C26_Witness ==
  /\ last.method = "Reset"
  /\ last.from = STATE_FINISHED
  /\ last.sent = 1
  /\ last.reply = ReturnValue(<<>>)

\* the member as the file gives it, or the default when the file has none
FromFile(v, default) == IF v.t = "absent" THEN default ELSE v.s

\* the segment names of the file in file order; the placeholder when there are none
SegmentsOfFile(doc) ==
  IF Len(doc.segments.a) = 0 THEN <<"Split 1">>
  ELSE [i \in 1..Len(doc.segments.a) |-> doc.segments.a[i].s]

\* C27: after a successful LoadRun the live Run is the Run of the file: game
\* and category as in the file, "Game" and "Any%" when absent, the segments in
\* file order.
C27_LoadedRunIsTheFile ==
  [][(last'.method = "LoadRun" /\ now' = now /\ Ok(last'.reply))
       => LET doc == files[last'.arg]
          IN  /\ g_run'.game = FromFile(doc.game, "Game")
              /\ g_run'.category = FromFile(doc.category, "Any%")
              /\ g_run'.segments = SegmentsOfFile(doc)]_vars

\* C28: Idle implies current_split = 0, Running or Paused implies
\* current_split < split_count, Finished implies current_split = split_count.
C28_StateAndSplitIndex ==
  /\ g_timer.state = STATE_IDLE => g_timer.current_split = 0
  /\ g_timer.state \in {STATE_RUNNING, STATE_PAUSED}
       => g_timer.current_split < g_timer.split_count
  /\ g_timer.state = STATE_FINISHED => g_timer.current_split = g_timer.split_count

\* paused on the last segment of a loaded two-segment run
C28_Witness ==
  /\ g_timer.state = STATE_PAUSED
  /\ g_timer.current_split = 1
  /\ g_timer.split_count = 2
  /\ last.method = "CurrentSplit"

\* C29: in Idle the start instant, the pause instant, the accumulated pause
\* duration, the frozen elapsed value and current_split are all 0; the timer
\* is Idle after every Reset and every successful LoadRun.
C29_IdleIsBaseline ==
  /\ [](g_timer.state = STATE_IDLE
          => /\ g_timer.start_monotonic_us = 0
             /\ g_timer.paused_at_us = 0
             /\ g_timer.total_paused_us = 0
             /\ g_timer.paused_elapsed_us = 0
             /\ g_timer.current_split = 0)
  /\ [][(last'.method = "Reset" \/ (last'.method = "LoadRun" /\ Ok(last'.reply)))
          => g_timer'.state = STATE_IDLE]_vars

\* a paused attempt was reset after the clock had moved on
C29_Witness ==
  /\ g_timer.state = STATE_IDLE
  /\ last.method = "Reset"
  /\ obs.prev = STATE_PAUSED
  /\ now >= 2 * TickUs

\* C30: an attempt started after the previous one was discarded by Reset or
\* LoadRun in Running, Paused or Finished measures its elapsed time from its
\* own start only: while it has not been paused, the elapsed time at a clock
\* reading is that reading minus the start.
C30_NewAttemptInheritsNothing ==
  (obs.prev # "none" /\ g_timer.state = STATE_RUNNING) =>
    /\ obs.prev \in {STATE_RUNNING, STATE_PAUSED, STATE_FINISHED}
    /\ \A c \in {now, now + TickUs} :
         /\ timer_elapsed_us(g_timer, c) = c - obs.start
         /\ ElapsedMsReply(g_timer, c) = (c - obs.start) \div US_PER_MS

\* a non-zero read in an attempt started after a paused one was discarded
C30_Witness ==
  /\ obs.prev = STATE_PAUSED
  /\ g_timer.state = STATE_RUNNING
  /\ last.method = "ElapsedMs"
  /\ last.reply.val[1] >= 1
  /\ obs.start >= 2 * TickUs

-----------------------------------------------------------------------------
(* Claims C31 - C33 *)

\* C31: StartOrSplit, TogglePause and Reset leave the live Run and split_count
\* as they were, in any state; a step that changes either is a successful
\* LoadRun.
C31_ControlsKeepRun ==
  [][/\ last'.method \in {"StartOrSplit", "TogglePause", "Reset"}
          => /\ g_run' = g_run
             /\ g_timer'.split_count = g_timer.split_count
     /\ (g_run' # g_run \/ g_timer'.split_count # g_timer.split_count)
          => (last'.method = "LoadRun" /\ Ok(last'.reply))]_vars

\* a finished attempt on a loaded two-segment run was reset
C31_Witness ==
  /\ last.method = "Reset"
  /\ last.from = STATE_FINISHED
  /\ g_timer.split_count = 2
  /\ g_run.game = "Hades"
  /\ Len(g_run.segments) = 2

\* C32: in Running the accumulated pause duration is >= 0 and at most
\* (now - start instant), so at this and at any later clock reading the raw
\* difference minus the pauses is not negative and the clamp changes nothing.
C32_PausesWithinWallTime ==
  g_timer.state = STATE_RUNNING =>
    /\ g_timer.total_paused_us >= 0
    /\ g_timer.total_paused_us <= now - g_timer.start_monotonic_us
    /\ \A c \in {now, now + TickUs} :
         timer_elapsed_us(g_timer, c) =
           (c - g_timer.start_monotonic_us) - g_timer.total_paused_us

\* resumed from a pause that began with the attempt: the pauses fill all of
\* the time since the start
C32_Witness ==
  /\ g_timer.state = STATE_RUNNING
  /\ last.method = "TogglePause"
  /\ g_timer.total_paused_us > 0
  /\ g_timer.total_paused_us = now - g_timer.start_monotonic_us

\* C33: after apply_run_to_timer on its own, before the reset, split_count is
\* the new run's segment count, at least 1, current_split is 0 if it exceeded
\* that count and is otherwise unchanged, and 0 <= current_split <= split_count.
C33_ApplyKeepsIndexInRange ==
  (loop.active # <<>> /\ loop.active[1].pc = "applied") =>
    LET n     == Len(g_run.segments)
        prior == last.reply.val[1]
    IN  /\ g_timer.split_count = (IF n < 1 THEN 1 ELSE n)
        /\ g_timer.current_split = (IF prior > g_timer.split_count THEN 0 ELSE prior)
        /\ 0 <= g_timer.current_split
        /\ g_timer.current_split <= g_timer.split_count
        /\ g_timer.state = last.from

\* a finished attempt at index 3 had a two-segment run applied: the index is
\* back at 0 while the state is still Finished
C33_Witness ==
  /\ loop.active # <<>>
  /\ loop.active[1].pc = "applied"
  /\ last.reply.val[1] = MaxSplits
  /\ last.from = STATE_FINISHED
  /\ Len(g_run.segments) = 2
  /\ g_timer.current_split = 0
  /\ g_timer.split_count = 2

====
